---- MODULE Spec2Model ----
(***************************************************************************)
(* Field-booking backend: the bookings and payments tables, the booking    *)
(* service (CreateBooking, CancelUserBooking), the payment callback, and   *)
(* the cron-driven expiration sweep, as a state machine over the database. *)
(*                                                                         *)
(* Time is counted in ticks of 30 minutes.  A time of day is a tick in     *)
(* 0..DayTicks-1, a timestamp is date * DayTicks + time of day.            *)
(***************************************************************************)
EXTENDS Integers, Sequences, FiniteSets, TLC

\* ---------------------------------------------------------------- bounds
MaxBookings == 2        \* rows the bookings table may hold
MaxNow      == 2        \* last tick the clock reaches
MaxStart    == 3        \* latest start time requested under Spec
HoursPerDay == 3        \* hours in the (scaled-down) day
NumProcs    == 2        \* concurrent requests
MaxHours    == 3        \* longest duration given to CalculateTotalPrice
MaxPending  == 1        \* cache stores waiting to run when a read is taken up
MaxUsers    == 2        \* rows the users table may hold

\* ------------------------------------------------------------- constants
GracePeriod  == 1                    \* INTERVAL '30 minutes' = one tick
TicksPerHour == 2 * GracePeriod      \* time.Hour
DayTicks     == HoursPerDay * TicksPerHour

NULL == 0 - 1

\* An int64 is kept as its 64 bits: four limbs of 15 bits, least significant
\* first, and a top limb holding bits 60..63 (two's complement).
LimbBase == 32768
TopBase  == 16
Zero64   == <<0, 0, 0, 0, 0>>
Int64(n) == <<n % LimbBase, (n \div LimbBase) % LimbBase, 0, 0, 0>>

IsNegative64(x) == x[5] >= TopBase \div 2

\* x * int64(d) for 0 <= d < LimbBase, wrapping at 64 bits as Go does
MulInt64(x, d) ==
    LET p1 == x[1] * d
        p2 == x[2] * d + p1 \div LimbBase
        p3 == x[3] * d + p2 \div LimbBase
        p4 == x[4] * d + p3 \div LimbBase
        p5 == x[5] * d + p4 \div LimbBase
    IN  <<p1 % LimbBase, p2 % LimbBase, p3 % LimbBase, p4 % LimbBase, p5 % TopBase>>

BookingStatusPending   == "PENDING"
BookingStatusCanceled  == "CANCELLED"
BookingStatusExpired   == "EXPIRED"
BookingStatusPaid      == "PAID"
BookingStatusConfirmed == "CONFIRMED"
BookingCanceledByUser  == "user"

PaymentUnknownMethod == "UNKNOWN"
PaymentCashMethod    == "CASH"
PaymentStatusPaid    == "PAID"
PaymentStatusPending == "PENDING"

UserRoleAdmin == "9"
UserRoleStaff == "2"
UserRoleUser  == "1"

CallbackToken == "secret"           \* cfg.Xendit.CallbackToken

cacheGetBookingsKey   == "bookings"
cacheCountBookingsKey == "bookings:count"
CacheDuration         == 60          \* cfg.Cache.Duration, in seconds
PaginationDefaultPage  == 1
PaginationDefaultLimit == 10

\* ---------------------------------------------------------- input domains
Users      == {"u1", "u2"}
RoleOf(u)  == IF u = "u1" THEN UserRoleUser ELSE UserRoleStaff
Fields     == {"f1", "f2"}          \* rows of the fields table
FieldPrice == [f \in Fields |-> IF f = "f1" THEN Int64(10000) ELSE Int64(15000)]
NoField    == "f3"                  \* an id with no row in fields
Procs      == 1 .. NumProcs
BookingIDs == 1 .. (MaxBookings + 1)
Tokens     == {CallbackToken, "wrong"}

\* requests made under Spec: one date, one-hour slots early in the day
SlotStarts == 1 .. MaxStart
\* requests made under SpecOverlap: any time of day, any field and date
StartTimes == 0 .. (DayTicks - 1)
Durations  == {0 - 1, 1, 2}
Dates      == {0, 1}

VARIABLES bookings, payments, now, proc, last,
          cache, async, users, email_verifications

vars == <<bookings, payments, now, proc, last,
          cache, async, users, email_verifications>>

\* the cache with the goroutines still to run, and the tables of the auth domain
cacheVars == <<cache, async>>
authVars  == <<users, email_verifications>>

Idle == [pc |-> "idle"]

\* ------------------------------------------------------------------ helpers
\* time.Add followed by Hour()/Minute(): the wall clock wraps at midnight
CalculateEndTime(startTime, durationHours) ==
    (startTime + durationHours * TicksPerHour) % DayTicks

CalculateTotalPrice(pricePerHour, durationHours) ==
    IF IsNegative64(pricePerHour) \/ pricePerHour = Zero64 \/ durationHours <= 0
    THEN Zero64
    ELSE MulInt64(pricePerHour, durationHours)

\* bookingDateTime.After(NowInAppTimezone())
IsBookingTimeValid(bookingDate, startTime) ==
    bookingDate * DayTicks + startTime > now

Min2(a, b) == IF a <= b THEN a ELSE b
Max2(a, b) == IF a >= b THEN a ELSE b

\* (s1, e1) OVERLAPS (s2, e2): each pair is ordered first, then compared as
\* half-open periods; periods that start together always overlap
PgOverlaps(s1, e1, s2, e2) ==
    LET ts1 == Min2(s1, e1)
        te1 == Max2(s1, e1)
        ts2 == Min2(s2, e2)
        te2 == Max2(s2, e2)
    IN  IF ts1 > ts2 THEN ts1 < te2
        ELSE IF ts1 < ts2 THEN ts2 < te1
        ELSE TRUE

ActiveStatuses == {BookingStatusPending, BookingStatusConfirmed, BookingStatusPaid}

OverlapRows(rows, fieldID, bookingDate, startTime, endTime) ==
    {i \in DOMAIN rows :
        /\ rows[i].field_id = fieldID
        /\ rows[i].booking_date = bookingDate
        /\ rows[i].status \in ActiveStatuses
        /\ PgOverlaps(rows[i].start_time, rows[i].end_time, startTime, endTime)
        /\ rows[i].deleted_at = NULL}

CountOverlaps(rows, fieldID, bookingDate, startTime, endTime) ==
    Cardinality(OverlapRows(rows, fieldID, bookingDate, startTime, endTime))

\* the insert into a table whose expires_at defaults to now()
InsertBooking_NoGrace(rows, userID, fieldID, bookingDate, startTime, endTime, totalPrice, status) ==
    Append(rows, [user_id      |-> userID,
                  field_id     |-> fieldID,
                  booking_date |-> bookingDate,
                  start_time   |-> startTime,
                  end_time     |-> endTime,
                  total_price  |-> totalPrice,
                  status       |-> status,
                  expires_at   |-> now,
                  created_at   |-> now,
                  canceled_at  |-> NULL,
                  canceled_by  |-> "NULL",
                  deleted_at   |-> NULL])

InsertBooking(rows, userID, fieldID, bookingDate, startTime, endTime, totalPrice, status) ==
    Append(rows, [user_id      |-> userID,
                  field_id     |-> fieldID,
                  booking_date |-> bookingDate,
                  start_time   |-> startTime,
                  end_time     |-> endTime,
                  total_price  |-> totalPrice,
                  status       |-> status,
                  expires_at   |-> now + GracePeriod,
                  created_at   |-> now,
                  canceled_at  |-> NULL,
                  canceled_by  |-> "NULL",
                  deleted_at   |-> NULL])

\* the update without its user_id condition
CancelBooking_NoUserGuard(rows, id, userID, canceledBy) ==
    [i \in DOMAIN rows |->
        IF i = id /\ rows[i].deleted_at = NULL
        THEN [rows[i] EXCEPT !.status = BookingStatusCanceled,
                             !.canceled_at = now,
                             !.canceled_by = canceledBy]
        ELSE rows[i]]

CancelBooking(rows, id, userID, canceledBy) ==
    [i \in DOMAIN rows |->
        IF i = id /\ rows[i].user_id = userID /\ rows[i].deleted_at = NULL
        THEN [rows[i] EXCEPT !.status = BookingStatusCanceled,
                             !.canceled_at = now,
                             !.canceled_by = canceledBy]
        ELSE rows[i]]

\* the update without its status condition
ExpireRows_NoStatusGuard(rows) ==
    [i \in DOMAIN rows |->
        IF rows[i].expires_at < now /\ rows[i].deleted_at = NULL
        THEN [rows[i] EXCEPT !.status = BookingStatusExpired]
        ELSE rows[i]]

\* the update applied to the first matching row only
ExpireRows_FirstOnly(rows) ==
    LET due == {i \in DOMAIN rows : /\ rows[i].status = BookingStatusPending
                                    /\ rows[i].expires_at < now
                                    /\ rows[i].deleted_at = NULL}
    IN  [i \in DOMAIN rows |->
            IF i \in due /\ \A j \in due : i <= j
            THEN [rows[i] EXCEPT !.status = BookingStatusExpired]
            ELSE rows[i]]

ExpireRows(rows) ==
    [i \in DOMAIN rows |->
        IF /\ rows[i].status = BookingStatusPending
           /\ rows[i].expires_at < now
           /\ rows[i].deleted_at = NULL
        THEN [rows[i] EXCEPT !.status = BookingStatusExpired]
        ELSE rows[i]]

\* the update also resetting total_price
UpdateBookingStatus_ClearsPrice(rows, id, status) ==
    [i \in DOMAIN rows |->
        IF i = id /\ rows[i].deleted_at = NULL
        THEN [rows[i] EXCEPT !.status = status, !.total_price = Zero64]
        ELSE rows[i]]

UpdateBookingStatus(rows, id, status) ==
    [i \in DOMAIN rows |->
        IF i = id /\ rows[i].deleted_at = NULL
        THEN [rows[i] EXCEPT !.status = status]
        ELSE rows[i]]

InsertPayment(rows, bookingID, paymentMethod, paymentStatus) ==
    Append(rows, [booking_id     |-> bookingID,
                  payment_method |-> paymentMethod,
                  payment_status |-> paymentStatus,
                  paid_at        |-> NULL])

\* the update without its paid_at assignment
UpdatePaymentStatusByBookingID_NoPaidAt(rows, bookingID, paymentStatus, paymentMethod, paidAt) ==
    [i \in DOMAIN rows |->
        IF rows[i].booking_id = bookingID
        THEN [rows[i] EXCEPT !.payment_status = paymentStatus,
                             !.payment_method = paymentMethod]
        ELSE rows[i]]

UpdatePaymentStatusByBookingID(rows, bookingID, paymentStatus, paymentMethod, paidAt) ==
    [i \in DOMAIN rows |->
        IF rows[i].booking_id = bookingID
        THEN [rows[i] EXCEPT !.payment_status = paymentStatus,
                             !.payment_method = paymentMethod,
                             !.paid_at = paidAt]
        ELSE rows[i]]

\* validate:"required,numeric,min=10000" on the Amount of a payment request
MinAmount == 10000
AmountValid(amount) ==
    /\ ~IsNegative64(amount)
    /\ \/ amount[1] >= MinAmount
       \/ \E i \in 2 .. 5 : amount[i] # 0

\* the cash payment recorded with the status of a gateway payment
CreatePayments_AlwaysPending(rows, bookingID, paymentMethod) ==
    InsertPayment(rows, bookingID, paymentMethod, PaymentStatusPending)

CreatePayments(rows, bookingID, paymentMethod) ==
    InsertPayment(rows, bookingID, paymentMethod,
                  IF paymentMethod = PaymentCashMethod THEN PaymentStatusPaid
                                                       ELSE PaymentStatusPending)

\* the payment row of a new gateway invoice (no method yet, status PENDING)
CreateInvoice(rows, orderID) ==
    InsertPayment(rows, orderID, PaymentUnknownMethod, PaymentStatusPending)

Result(op, err) == [op |-> op, err |-> err]

\* --------------------------------------------------------------- the cache
\* "k=v;" for every argument, in the order of the sorted keys
SlotsArgs(fieldID, date) ==
    "date=" \o ToString(date) \o ";field_id=" \o fieldID \o ";"
PageArgs(page, limit, filter) ==
    "filter=" \o filter \o ";limit=" \o ToString(limit)
              \o ";page=" \o ToString(page) \o ";"

\* "<parent>:cache:<key>:<postfix>", kept as its two varying parts
BuildCacheKey(key, postfix) == <<key, postfix>>

\* SCAN MATCH "<parent>:cache:<prefix>:*"
Matches(prefix, k) ==
    \/ k[1] = prefix
    \/ prefix = cacheGetBookingsKey /\ k[1] = cacheCountBookingsKey

CacheKeys ==
    {BuildCacheKey(cacheGetBookingsKey, SlotsArgs(f, d)) : f \in Fields, d \in Dates}
    \cup {BuildCacheKey(cacheGetBookingsKey,
                        PageArgs(PaginationDefaultPage, PaginationDefaultLimit, "")),
          BuildCacheKey(cacheCountBookingsKey,
                        PageArgs(PaginationDefaultPage, PaginationDefaultLimit, ""))}

\* a key with no value, and a value set with its time to live
NoEntry      == [ttl |-> 0]
Entry(value) == [ttl |-> CacheDuration, value |-> value]
Cached(k)    == cache[k].ttl > 0

\* the result stored under the key of the count, whatever the read was
SaveTask_OtherKey(k, value) ==
    [kind  |-> "save",
     key   |-> BuildCacheKey(cacheCountBookingsKey,
                             PageArgs(PaginationDefaultPage, PaginationDefaultLimit, "")),
     value |-> value]

\* go func() { cache.Save(ctx, cacheKey, res, cfg.Cache.Duration) }
SaveTask(k, value) == [kind |-> "save", key |-> k, value |-> value]

\* go func() { cache.Clear(bookings:*); cache.Clear(bookings:count:*) }: the
\* goroutine as it starts, about to run its first Clear
ClearBookings == [kind |-> "clear", prefix |-> cacheGetBookingsKey]
ClearCounts   == [kind |-> "clear", prefix |-> cacheCountBookingsKey]

\* go func() { sendBookingConfirmationEmail(...) }
Notify == [kind |-> "notify"]

\* how the call made after the commit ends: the payment is recorded; the
\* gateway or the payments table answers with an error; the gateway answers
\* with an invoice that has no Id (the handler then returns
\* failure.InternalError(err) with err still nil, which is nil)
AdapterResults == {"ok", "error", "noId"}

\* what CreateBooking answers once the booking is committed: the error, the
\* Status of the response, and whether the gateway was asked for an invoice
Response(err, status, invoice) ==
    [op |-> "create", err |-> err, status |-> status, invoice |-> invoice]

\* --------------------------------------------------------------------- Init
Init ==
    /\ bookings = <<>>
    /\ payments = <<>>
    /\ now = 0
    /\ proc = [p \in Procs |-> Idle]
    /\ last = Result("none", "nil")
    /\ cache = [k \in CacheKeys |-> NoEntry]
    /\ async = {}
    /\ users = <<>>
    /\ email_verifications = <<>>

\* ------------------------------------------------------------ CreateBooking
InFlight == {q \in Procs : proc[q].pc = "checked"}

\* validation, Begin and the overlap count
CreateBookingCheck(p, userID, fieldID, date, startTime, duration, cash) ==
    /\ proc[p].pc = "idle"
    /\ Len(bookings) + Cardinality(InFlight) < MaxBookings
    /\ LET endTime == CalculateEndTime(startTime, duration)
       IN  IF ~IsBookingTimeValid(date, startTime)
           THEN /\ last' = Result("create", "BadRequest")
                /\ UNCHANGED proc
           ELSE IF CountOverlaps(bookings, fieldID, date, startTime, endTime) > 0
           THEN /\ last' = Result("create", "Conflict")
                /\ UNCHANGED proc
           ELSE /\ proc' = [proc EXCEPT ![p] =
                              [pc |-> "checked", user_id |-> userID,
                               field_id |-> fieldID, date |-> date,
                               start_time |-> startTime, end_time |-> endTime,
                               duration |-> duration, cash |-> cash]]
                /\ last' = Result("check", "nil")
    /\ UNCHANGED <<bookings, payments, now>>
    /\ UNCHANGED <<cacheVars, authVars>>

\* field lookup, insert and Commit
CreateBookingInsert(p) ==
    /\ proc[p].pc = "checked"
    /\ LET r == proc[p]
       IN  IF r.field_id \notin Fields
           THEN /\ proc' = [proc EXCEPT ![p] = Idle]
                /\ last' = Result("create", "NotFound")
                /\ UNCHANGED bookings
           ELSE /\ bookings' = InsertBooking(bookings, r.user_id, r.field_id, r.date,
                                  r.start_time, r.end_time,
                                  CalculateTotalPrice(FieldPrice[r.field_id], r.duration),
                                  IF r.cash THEN BookingStatusPaid
                                            ELSE BookingStatusPending)
                /\ proc' = [proc EXCEPT ![p] =
                              [pc |-> "committed", user_id |-> r.user_id,
                               cash |-> r.cash, booking |-> Len(bookings) + 1,
                               amount |-> CalculateTotalPrice(FieldPrice[r.field_id],
                                                              r.duration)]]
                /\ last' = Result("insert", "nil")
    /\ UNCHANGED <<payments, now>>
    /\ UNCHANGED <<cacheVars, authVars>>

\* the insert left in the table when the handler returns its error
CreateBookingAbort_NoRollback(p) ==
    /\ proc[p].pc \in {"idle", "checked"}
    /\ IF proc[p].pc = "checked" /\ proc[p].field_id \in Fields
       THEN LET r == proc[p]
            IN  bookings' = InsertBooking(bookings, r.user_id, r.field_id, r.date,
                                r.start_time, r.end_time,
                                CalculateTotalPrice(FieldPrice[r.field_id], r.duration),
                                IF r.cash THEN BookingStatusPaid
                                          ELSE BookingStatusPending)
       ELSE UNCHANGED bookings
    /\ proc' = [proc EXCEPT ![p] = Idle]
    /\ last' = Result("create", "StorageError")
    /\ UNCHANGED <<payments, now>>
    /\ UNCHANGED <<cacheVars, authVars>>

\* Begin, the overlap count, the field lookup, the insert or Commit fails, or
\* the context is done: the error is returned as it is and the deferred
\* Rollback drops what the transaction has written
CreateBookingAbort(p) ==
    /\ proc[p].pc \in {"idle", "checked"}
    /\ proc' = [proc EXCEPT ![p] = Idle]
    /\ last' = Result("create", "StorageError")
    /\ UNCHANGED <<bookings, payments, now>>
    /\ UNCHANGED <<cacheVars, authVars>>

\* after the commit: the cash payment or the gateway invoice
CreateBookingPayment(p, adapter) ==
    /\ proc[p].pc = "committed"
    /\ proc[p].cash => adapter # "noId"
    /\ LET r == proc[p]
       IN  IF r.cash
           THEN IF RoleOf(r.user_id) # UserRoleAdmin /\ RoleOf(r.user_id) # UserRoleStaff
                THEN /\ last' = Response("Forbidden", "", FALSE)
                     /\ UNCHANGED payments
                ELSE IF ~AmountValid(r.amount)
                THEN /\ last' = Response("BadRequest", "", FALSE)
                     /\ UNCHANGED payments
                ELSE IF adapter = "ok"
                THEN /\ payments' = CreatePayments(payments, r.booking, PaymentCashMethod)
                     /\ last' = Response("nil", PaymentStatusPaid, FALSE)
                ELSE /\ last' = Response("InternalError", "", FALSE)
                     /\ UNCHANGED payments
           ELSE IF ~AmountValid(r.amount)
                THEN /\ last' = Response("BadRequest", "", FALSE)
                     /\ UNCHANGED payments
                ELSE IF adapter = "ok"
                THEN /\ payments' = CreateInvoice(payments, r.booking)
                     /\ last' = Response("nil", PaymentStatusPending, TRUE)
                ELSE IF adapter = "noId"
                THEN /\ last' = Response("nil", "", TRUE)
                     /\ UNCHANGED payments
                ELSE /\ last' = Response("InternalError", "", TRUE)
                     /\ UNCHANGED payments
    /\ proc' = [proc EXCEPT ![p] = Idle]
    /\ UNCHANGED <<bookings, now>>
    /\ async' = IF last'.err = "nil" THEN async \cup {ClearBookings} ELSE async
    /\ UNCHANGED <<cache, authVars>>

\* ------------------------------------------- CreateBooking, run on its own
\* the whole handler with no other request in between its statements
CreateBooking(userID, fieldID, date, startTime, duration, cash, adapter) ==
    /\ Len(bookings) < MaxBookings
    /\ cash => adapter # "noId"
    /\ \A q \in Procs : proc[q].pc = "idle"
    /\ LET endTime == CalculateEndTime(startTime, duration)
           status  == IF cash THEN BookingStatusPaid ELSE BookingStatusPending
           id      == Len(bookings) + 1
           totalPrice == IF fieldID \in Fields
                         THEN CalculateTotalPrice(FieldPrice[fieldID], duration)
                         ELSE Zero64
       IN  IF ~IsBookingTimeValid(date, startTime)
           THEN /\ last' = Result("create", "BadRequest")
                /\ UNCHANGED <<bookings, payments>>
           ELSE IF CountOverlaps(bookings, fieldID, date, startTime, endTime) > 0
           THEN /\ last' = Result("create", "Conflict")
                /\ UNCHANGED <<bookings, payments>>
           ELSE IF fieldID \notin Fields
           THEN /\ last' = Result("create", "NotFound")
                /\ UNCHANGED <<bookings, payments>>
           ELSE /\ bookings' = InsertBooking(bookings, userID, fieldID, date,
                                  startTime, endTime, totalPrice, status)
                /\ IF cash
                   THEN IF RoleOf(userID) # UserRoleAdmin /\ RoleOf(userID) # UserRoleStaff
                        THEN /\ last' = Response("Forbidden", "", FALSE)
                             /\ UNCHANGED payments
                        ELSE IF ~AmountValid(totalPrice)
                        THEN /\ last' = Response("BadRequest", "", FALSE)
                             /\ UNCHANGED payments
                        ELSE IF adapter = "ok"
                        THEN /\ payments' = CreatePayments(payments, id, PaymentCashMethod)
                             /\ last' = Response("nil", PaymentStatusPaid, FALSE)
                        ELSE /\ last' = Response("InternalError", "", FALSE)
                             /\ UNCHANGED payments
                   ELSE IF ~AmountValid(totalPrice)
                        THEN /\ last' = Response("BadRequest", "", FALSE)
                             /\ UNCHANGED payments
                        ELSE IF adapter = "ok"
                        THEN /\ payments' = CreateInvoice(payments, id)
                             /\ last' = Response("nil", PaymentStatusPending, TRUE)
                        ELSE IF adapter = "noId"
                        THEN /\ last' = Response("nil", "", TRUE)
                             /\ UNCHANGED payments
                        ELSE /\ last' = Response("InternalError", "", TRUE)
                             /\ UNCHANGED payments
    /\ UNCHANGED <<now, proc>>
    /\ async' = IF last'.err = "nil" THEN async \cup {ClearBookings} ELSE async
    /\ UNCHANGED <<cache, authVars>>

\* -------------------------------------------------------- CancelUserBooking
CancelUserBooking(bookingID, userID) ==
    /\ bookings' = CancelBooking(bookings, bookingID, userID, BookingCanceledByUser)
    /\ last' = Result("cancel", "nil")
    /\ UNCHANGED <<payments, now, proc>>
    /\ async' = async \cup {ClearBookings}
    /\ UNCHANGED <<cache, authVars>>

\* ---------------------------------------------------------------- Callbacks
\* the handler without its token comparison
Callbacks_NoTokenCheck(externalID, status, method, token) ==
    /\ LET paymentStatus == IF status = "" THEN PaymentStatusPending ELSE status
           paymentMethod == IF method = NULL THEN PaymentUnknownMethod ELSE "GATEWAY"
           bookingStatus == IF status = PaymentStatusPaid
                            THEN BookingStatusConfirmed ELSE ""
       IN  /\ payments' = UpdatePaymentStatusByBookingID(payments, externalID,
                               paymentStatus, paymentMethod, now)
           /\ bookings' = UpdateBookingStatus(bookings, externalID, bookingStatus)
           /\ last' = Result("callback", "nil")
           /\ async' = IF status = PaymentStatusPaid THEN async \cup {Notify} ELSE async
    /\ UNCHANGED <<now, proc>>
    /\ UNCHANGED <<cache, authVars>>

Callbacks(externalID, status, method, token) ==
    /\ IF CallbackToken # token
       THEN /\ last' = Result("callback", "Unauthorized")
            /\ UNCHANGED <<bookings, payments, async>>
       ELSE LET paymentStatus == IF status = "" THEN PaymentStatusPending ELSE status
                paymentMethod == IF method = NULL THEN PaymentUnknownMethod ELSE "GATEWAY"
                bookingStatus == IF status = PaymentStatusPaid
                                 THEN BookingStatusConfirmed ELSE ""
            IN  /\ payments' = UpdatePaymentStatusByBookingID(payments, externalID,
                                    paymentStatus, paymentMethod, now)
                /\ bookings' = UpdateBookingStatus(bookings, externalID, bookingStatus)
                /\ last' = Result("callback", "nil")
                /\ async' = IF status = PaymentStatusPaid
                            THEN async \cup {Notify} ELSE async
    /\ UNCHANGED <<now, proc>>
    /\ UNCHANGED <<cache, authVars>>

\* ------------------------------------ Callbacks, one statement at a time
\* A statement run on the transaction is kept in the request's own state and
\* reaches the tables at Commit; the deferred Rollback drops it.  An update
\* waits while another open transaction holds the rows of the same booking.
Locked(externalID) ==
    \E q \in Procs : /\ proc[q].pc \in {"paymentUpdated", "bookingUpdated"}
                     /\ proc[q].id = externalID

CallbackTx(pc, externalID, status, method, paidAt) ==
    [pc            |-> pc,
     id            |-> externalID,
     paymentStatus |-> IF status = "" THEN PaymentStatusPending ELSE status,
     paymentMethod |-> IF method = NULL THEN PaymentUnknownMethod ELSE "GATEWAY",
     bookingStatus |-> IF status = PaymentStatusPaid THEN BookingStatusConfirmed ELSE "",
     paid_at       |-> paidAt]

\* the payment update run on the pool instead of the transaction
CallbacksUpdatePayment_NoTx(p, externalID, status, method, token) ==
    /\ proc[p].pc = "idle"
    /\ IF CallbackToken # token
       THEN /\ last' = Result("callback", "Unauthorized")
            /\ UNCHANGED <<proc, payments>>
       ELSE /\ ~Locked(externalID)
            /\ LET tx == CallbackTx("paymentUpdated", externalID, status, method, now)
               IN  /\ proc' = [proc EXCEPT ![p] = tx]
                   /\ payments' = UpdatePaymentStatusByBookingID(payments, tx.id,
                                       tx.paymentStatus, tx.paymentMethod, tx.paid_at)
            /\ UNCHANGED last
    /\ UNCHANGED <<bookings, now>>
    /\ UNCHANGED <<cacheVars, authVars>>

\* token check, Begin and the payment update
CallbacksUpdatePayment(p, externalID, status, method, token) ==
    /\ proc[p].pc = "idle"
    /\ IF CallbackToken # token
       THEN /\ last' = Result("callback", "Unauthorized")
            /\ UNCHANGED proc
       ELSE /\ ~Locked(externalID)
            /\ proc' = [proc EXCEPT ![p] =
                          CallbackTx("paymentUpdated", externalID, status, method, now)]
            /\ UNCHANGED last
    /\ UNCHANGED <<bookings, payments, now>>
    /\ UNCHANGED <<cacheVars, authVars>>

\* the booking update; when it fails the handler returns and rolls back
CallbacksUpdateBooking(p, dbOk) ==
    /\ proc[p].pc = "paymentUpdated"
    /\ IF dbOk
       THEN /\ proc' = [proc EXCEPT ![p].pc = "bookingUpdated"]
            /\ UNCHANGED last
       ELSE /\ proc' = [proc EXCEPT ![p] = Idle]
            /\ last' = Result("callback", "InternalError")
    /\ UNCHANGED <<bookings, payments, now>>
    /\ UNCHANGED <<cacheVars, authVars>>

\* Commit; when it fails the handler returns and rolls back
CallbacksCommit(p, dbOk) ==
    /\ proc[p].pc = "bookingUpdated"
    /\ LET tx == proc[p]
       IN  IF dbOk
           THEN /\ payments' = UpdatePaymentStatusByBookingID(payments, tx.id,
                                    tx.paymentStatus, tx.paymentMethod, tx.paid_at)
                /\ bookings' = UpdateBookingStatus(bookings, tx.id, tx.bookingStatus)
                /\ last' = Result("callback", "nil")
                /\ async' = IF tx.bookingStatus = BookingStatusConfirmed
                            THEN async \cup {Notify} ELSE async
           ELSE /\ last' = Result("callback", "InternalError")
                /\ UNCHANGED <<bookings, payments, async>>
    /\ proc' = [proc EXCEPT ![p] = Idle]
    /\ UNCHANGED now
    /\ UNCHANGED <<cache, authVars>>

\* -------------------------------------------------------- ExpireOldBookings
ExpireOldBookings ==
    /\ bookings' = ExpireRows(bookings)
    /\ UNCHANGED <<payments, now, proc, last>>
    /\ UNCHANGED <<cacheVars, authVars>>

\* -------------------------------------------------------------------- clock
Tick ==
    /\ now < MaxNow
    /\ now' = now + 1
    /\ UNCHANGED <<bookings, payments, proc, last>>
    /\ UNCHANGED <<cacheVars, authVars>>

\* ---------------------------------------------------------- GetBookedSlots
\* SELECT start_time, end_time ... WHERE status IN ('PENDING', 'CONFIRMED')
GetBookedTimeSlots(rows, fieldID, bookingDate) ==
    {<<rows[i].start_time, rows[i].end_time>> :
        i \in {j \in DOMAIN rows :
                  /\ rows[j].field_id = fieldID
                  /\ rows[j].booking_date = bookingDate
                  /\ rows[j].status \in {BookingStatusPending, BookingStatusConfirmed}}}

\* the goroutines started to store a result that have not yet run; a read is
\* taken up while fewer than MaxPending of them are waiting
PendingSaves == {t \in async : t.kind = "save"}

\* the handler failing the request when the cache cannot be read
GetBookedSlots_FailOnCacheError(fieldID, date, cacheOk) ==
    /\ Cardinality(PendingSaves) < MaxPending
    /\ LET cacheKey == BuildCacheKey(cacheGetBookingsKey, SlotsArgs(fieldID, date))
           res      == GetBookedTimeSlots(bookings, fieldID, date)
       IN  IF ~cacheOk
           THEN /\ last' = [op |-> "slots", err |-> "InternalError", value |-> {}]
                /\ UNCHANGED async
           ELSE IF Cached(cacheKey)
           THEN /\ last' = [op |-> "slots", err |-> "nil", value |-> cache[cacheKey].value]
                /\ UNCHANGED async
           ELSE /\ last' = [op |-> "slots", err |-> "nil", value |-> res]
                /\ async' = async \cup {SaveTask(cacheKey, res)}
    /\ UNCHANGED <<bookings, payments, now, proc, cache, authVars>>

\* cacheOk: whether cache.Get can reach the cache and decode the entry
GetBookedSlots(fieldID, date, cacheOk) ==
    /\ Cardinality(PendingSaves) < MaxPending
    /\ LET cacheKey == BuildCacheKey(cacheGetBookingsKey, SlotsArgs(fieldID, date))
           res      == GetBookedTimeSlots(bookings, fieldID, date)
       IN  IF cacheOk /\ Cached(cacheKey)
           THEN /\ last' = [op |-> "slots", err |-> "nil", value |-> cache[cacheKey].value]
                /\ UNCHANGED async
           ELSE /\ last' = [op |-> "slots", err |-> "nil", value |-> res]
                /\ async' = async \cup {SaveTask(cacheKey, res)}
    /\ UNCHANGED <<bookings, payments, now, proc, cache, authVars>>

\* ------------------------------------- GetUserBookings, CountUserBookings
UserBookings(rows, userID) ==
    {i \in DOMAIN rows : rows[i].user_id = userID /\ rows[i].deleted_at = NULL}

ListKey  == BuildCacheKey(cacheGetBookingsKey,
                          PageArgs(PaginationDefaultPage, PaginationDefaultLimit, ""))
CountKey == BuildCacheKey(cacheCountBookingsKey,
                          PageArgs(PaginationDefaultPage, PaginationDefaultLimit, ""))

CountUserBookings(userID, cacheOk) ==
    /\ Cardinality(PendingSaves) < MaxPending
    /\ IF cacheOk /\ Cached(CountKey)
       THEN /\ last' = [op |-> "count", err |-> "nil", value |-> cache[CountKey].value]
            /\ UNCHANGED async
       ELSE LET total == Cardinality(UserBookings(bookings, userID))
            IN  /\ last' = [op |-> "count", err |-> "nil", value |-> total]
                /\ async' = async \cup {SaveTask(CountKey, total)}
    /\ UNCHANGED <<bookings, payments, now, proc, cache, authVars>>

\* first page with the default limit and no filter; on a miss the total comes
\* from CountUserBookings, itself read through the cache
GetUserBookings(userID, cacheOk, countOk) ==
    /\ Cardinality(PendingSaves) < MaxPending
    /\ IF cacheOk /\ Cached(ListKey)
       THEN /\ last' = [op |-> "list", err |-> "nil", value |-> cache[ListKey].value]
            /\ UNCHANGED async
       ELSE LET countHit == countOk /\ Cached(CountKey)
                total    == IF countHit THEN cache[CountKey].value
                            ELSE Cardinality(UserBookings(bookings, userID))
                res      == [items |-> UserBookings(bookings, userID), total |-> total]
            IN  /\ last' = [op |-> "list", err |-> "nil", value |-> res]
                /\ async' = async \cup {SaveTask(ListKey, res)}
                                  \cup (IF countHit THEN {} ELSE {SaveTask(CountKey, total)})
    /\ UNCHANGED <<bookings, payments, now, proc, cache, authVars>>

\* ------------------------------------------------------------- goroutines
\* one cache call of a started goroutine; cacheOk: whether the call succeeds.
\* An error is logged and the goroutine goes on.
RunAsync(t, cacheOk) ==
    /\ t \in async
    /\ IF t.kind = "save"
       THEN /\ cache' = IF cacheOk THEN [cache EXCEPT ![t.key] = Entry(t.value)]
                                   ELSE cache
            /\ async' = async \ {t}
       ELSE IF t.kind = "clear"
       THEN /\ cache' = IF cacheOk
                        THEN [k \in CacheKeys |->
                                 IF Matches(t.prefix, k) THEN NoEntry ELSE cache[k]]
                        ELSE cache
            /\ async' = IF t = ClearBookings
                        THEN (async \ {t}) \cup {ClearCounts}
                        ELSE async \ {t}
       ELSE /\ async' = async \ {t}
            /\ UNCHANGED cache
    /\ UNCHANGED <<bookings, payments, now, proc, last, authVars>>

\* the time to live of an entry runs out
CacheExpire(k) ==
    /\ Cached(k)
    /\ cache' = [cache EXCEPT ![k] = NoEntry]
    /\ UNCHANGED <<bookings, payments, now, proc, last, async, authVars>>

\* ----------------------------------------------------------------- Register
\* an email address as strings.Split(email, "@") sees it
Emails == {<<"a", "gmail.com">>, <<"b", "gmail.com">>, <<"a", "example.org">>}

AllowedDomains ==
    {"gmail.com", "googlemail.com", "outlook.com", "hotmail.com", "live.com",
     "yahoo.com", "yahoo.co.uk", "yahoo.co.id", "yahoo.co.jp", "icloud.com"}

IsAllowedEmailDomain(email) == Len(email) = 2 /\ email[2] \in AllowedDomains

\* SELECT * FROM users WHERE email = $1 AND deleted_at IS NULL
GetUserByEmail(rows, email) ==
    {i \in DOMAIN rows : rows[i].email = email /\ rows[i].deleted_at = NULL}

\* email VARCHAR(255) NOT NULL UNIQUE: the rows, deleted or not, that an
\* insert of this email collides with
UniqueEmailRows(rows, email) == {i \in DOMAIN rows : rows[i].email = email}

CreateUser(rows, email) == Append(rows, [email |-> email, deleted_at |-> NULL])

CreateEmailVerification(rows, userID) == Append(rows, [user_id |-> userID])

\* go func() { mailService.SendVerificationEmail(...) }
VerificationMail == [kind |-> "mail"]

\* another open transaction has inserted a user with this email: the unique
\* index makes a second insert wait until that transaction ends
InsertPending(email) ==
    \E q \in Procs : /\ proc[q].pc \in {"userCreated", "verificationCreated"}
                     /\ proc[q].email = email

\* the domain check, Begin and the lookup of the email
RegisterCheck(p, email) ==
    /\ proc[p].pc = "idle"
    /\ Len(users) < MaxUsers
    /\ IF ~IsAllowedEmailDomain(email)
       THEN /\ last' = Result("register", "BadRequest")
            /\ UNCHANGED proc
       ELSE IF GetUserByEmail(users, email) # {}
       THEN /\ last' = Result("register", "BadRequest")
            /\ UNCHANGED proc
       ELSE /\ proc' = [proc EXCEPT ![p] = [pc |-> "emailFree", email |-> email]]
            /\ UNCHANGED last
    /\ UNCHANGED <<bookings, payments, now, cacheVars, authVars>>

\* CreateUser on the transaction; an error of the statement, the unique
\* violation included, is answered with InternalError and rolled back
RegisterCreateUser(p, dbOk) ==
    /\ proc[p].pc = "emailFree"
    /\ ~InsertPending(proc[p].email)
    /\ IF dbOk /\ UniqueEmailRows(users, proc[p].email) = {}
       THEN /\ proc' = [proc EXCEPT ![p].pc = "userCreated"]
            /\ UNCHANGED last
       ELSE /\ proc' = [proc EXCEPT ![p] = Idle]
            /\ last' = Result("register", "InternalError")
    /\ UNCHANGED <<bookings, payments, now, cacheVars, authVars>>

\* the token and CreateEmailVerification on the transaction
RegisterCreateVerification(p, dbOk) ==
    /\ proc[p].pc = "userCreated"
    /\ IF dbOk
       THEN /\ proc' = [proc EXCEPT ![p].pc = "verificationCreated"]
            /\ UNCHANGED last
       ELSE /\ proc' = [proc EXCEPT ![p] = Idle]
            /\ last' = Result("register", "InternalError")
    /\ UNCHANGED <<bookings, payments, now, cacheVars, authVars>>

\* Commit, and the verification mail sent from a goroutine
RegisterCommit(p, dbOk) ==
    /\ proc[p].pc = "verificationCreated"
    /\ IF dbOk
       THEN /\ users' = CreateUser(users, proc[p].email)
            /\ email_verifications' =
                    CreateEmailVerification(email_verifications, Len(users) + 1)
            /\ async' = async \cup {VerificationMail}
            /\ last' = Result("register", "nil")
       ELSE /\ last' = Result("register", "InternalError")
            /\ UNCHANGED <<authVars, async>>
    /\ proc' = [proc EXCEPT ![p] = Idle]
    /\ UNCHANGED <<bookings, payments, now, cache>>

\* --------------------------------------------------------------------- Next
Next ==
    \/ \E u \in Users, f \in {"f1", NoField}, st \in SlotStarts,
          cash \in BOOLEAN, ok \in AdapterResults :
            CreateBooking(u, f, 0, st, 1, cash, ok)
    \/ \E id \in BookingIDs, u \in Users : CancelUserBooking(id, u)
    \/ \E id \in BookingIDs, s \in {PaymentStatusPaid, ""}, t \in Tokens :
            Callbacks(id, s, NULL, t)
    \/ ExpireOldBookings
    \/ Tick

Spec == Init /\ [][Next]_vars

\* Requests over every time of day, duration, field and date, with
\* cancellations in between; the clock does not advance.
NextOverlap ==
    \/ \E f \in Fields, d \in Dates, st \in StartTimes, dur \in Durations :
            CreateBooking("u1", f, d, st, dur, FALSE, "ok")
    \/ \E id \in BookingIDs : CancelUserBooking(id, "u1")

SpecOverlap == Init /\ [][NextOverlap]_vars

\* Two or more CreateBooking requests for slots of one field and date, each
\* in its own transaction, their statements interleaved.
NextConc ==
    \/ \E p \in Procs, st \in SlotStarts :
            CreateBookingCheck(p, "u1", "f1", 0, st, 1, FALSE)
    \/ \E p \in Procs : CreateBookingInsert(p)
    \/ \E p \in Procs, ok \in AdapterResults : CreateBookingPayment(p, ok)

SpecConc == Init /\ [][NextConc]_vars

\* The cron trigger keeps firing: the sweep is weakly fair.
NextLive ==
    \/ \E st \in SlotStarts, ok \in AdapterResults :
            CreateBooking("u1", "f1", 0, st, 1, FALSE, ok)
    \/ \E id \in BookingIDs : CancelUserBooking(id, "u1")
    \/ \E id \in BookingIDs, s \in {PaymentStatusPaid, ""} :
            Callbacks(id, s, NULL, CallbackToken)
    \/ ExpireOldBookings
    \/ Tick

SpecLive == Init /\ [][NextLive]_vars /\ WF_vars(ExpireOldBookings)

\* The same requests, with nothing said about how often the sweep runs.
SpecSeq == Init /\ [][NextLive]_vars

\* Bookings paid in cash or through the gateway, and the gateway's callbacks
\* with right and wrong tokens, while the clock advances.
NextPay ==
    \/ \E u \in Users, st \in SlotStarts, cash \in BOOLEAN, ok \in AdapterResults :
            CreateBooking(u, "f1", 0, st, 1, cash, ok)
    \/ \E id \in BookingIDs, s \in {PaymentStatusPaid, ""}, t \in Tokens :
            Callbacks(id, s, NULL, t)
    \/ Tick

SpecPay == Init /\ [][NextPay]_vars

\* Callbacks of the gateway run concurrently, statement by statement, any
\* statement after the payment update may fail; bookings are created while
\* no callback is open; the clock does not advance.
NextCb ==
    \/ \E st \in SlotStarts, ok \in AdapterResults :
            CreateBooking("u1", "f1", 0, st, 1, FALSE, ok)
    \/ \E p \in Procs, id \in BookingIDs, s \in {PaymentStatusPaid, ""}, t \in Tokens :
            CallbacksUpdatePayment(p, id, s, NULL, t)
    \/ \E p \in Procs, dbOk \in BOOLEAN : CallbacksUpdateBooking(p, dbOk)
    \/ \E p \in Procs, dbOk \in BOOLEAN : CallbacksCommit(p, dbOk)

SpecCb == Init /\ [][NextCb]_vars

\* CreateBooking requests statement by statement, for past and future slots
\* and for known and unknown fields; any statement of the transaction may
\* fail; the clock advances.
NextTx ==
    \/ \E p \in Procs, u \in Users, f \in {"f1", NoField}, st \in 0 .. MaxStart,
          cash \in BOOLEAN :
            CreateBookingCheck(p, u, f, 0, st, 1, cash)
    \/ \E p \in Procs : CreateBookingInsert(p)
    \/ \E p \in Procs : CreateBookingAbort(p)
    \/ \E p \in Procs, ok \in AdapterResults : CreateBookingPayment(p, ok)
    \/ Tick

SpecTx == Init /\ [][NextTx]_vars

\* Bookings of one field and date made through the gateway or in cash,
\* cancelled and confirmed, while the booked slots of that field and date are
\* read through the cache; goroutines run whenever they are scheduled, each
\* cache call may fail, and entries expire.
NextCache ==
    \/ \E st \in SlotStarts, cash \in BOOLEAN :
            CreateBooking("u2", "f1", 0, st, 1, cash, "ok")
    \/ \E id \in 1 .. MaxBookings : CancelUserBooking(id, "u2")
    \/ \E id \in 1 .. MaxBookings :
            Callbacks(id, PaymentStatusPaid, NULL, CallbackToken)
    \/ \E cacheOk \in BOOLEAN : GetBookedSlots("f1", 0, cacheOk)
    \/ \E t \in async, cacheOk \in BOOLEAN : RunAsync(t, cacheOk)
    \/ \E k \in CacheKeys : CacheExpire(k)

SpecCache == Init /\ [][NextCache]_vars

\* One slot booked, cancelled and confirmed while the booked slots and the
\* caller's bookings are read; every cache call and every notification may
\* fail.
NextFail ==
    \/ \E cash \in BOOLEAN : CreateBooking("u2", "f1", 0, 1, 1, cash, "ok")
    \/ \E id \in 1 .. MaxBookings : CancelUserBooking(id, "u2")
    \/ \E id \in 1 .. MaxBookings :
            Callbacks(id, PaymentStatusPaid, NULL, CallbackToken)
    \/ \E cacheOk \in BOOLEAN : GetBookedSlots("f1", 0, cacheOk)
    \/ \E cacheOk \in BOOLEAN, countOk \in BOOLEAN :
            GetUserBookings("u2", cacheOk, countOk)
    \/ \E t \in async, cacheOk \in BOOLEAN : RunAsync(t, cacheOk)

SpecFail == Init /\ [][NextFail]_vars

\* Gateway bookings whose payment step may fail, made while no store of an
\* earlier read is waiting, and reads of the caller's bookings through the
\* cache.  A started goroutine is scheduled and a Clear reaches the cache: a
\* Clear that is waiting eventually runs, and it succeeds.  An entry may
\* expire, but nothing says when: its time to live is the configured
\* duration, and a duration of 0 sets a key that never expires.
NextInvalidate ==
    \/ \E st \in SlotStarts, ok \in AdapterResults :
            PendingSaves = {} /\ CreateBooking("u2", "f1", 0, st, 1, FALSE, ok)
    \/ \E cacheOk \in BOOLEAN : GetUserBookings("u2", cacheOk, cacheOk)
    \/ \E t \in async, cacheOk \in BOOLEAN :
            (t.kind = "clear" => cacheOk) /\ RunAsync(t, cacheOk)
    \/ \E k \in CacheKeys : CacheExpire(k)

SpecInvalidate ==
    /\ Init
    /\ [][NextInvalidate]_vars
    /\ WF_vars(\E t \in async : t.kind = "clear" /\ RunAsync(t, TRUE))

\* Two users book slots and read their own bookings and their number
\* through the cache.
NextList ==
    \/ \E u \in Users, st \in SlotStarts :
            CreateBooking(u, "f1", 0, st, 1, FALSE, "ok")
    \/ \E u \in Users, cacheOk \in BOOLEAN, countOk \in BOOLEAN :
            GetUserBookings(u, cacheOk, countOk)
    \/ \E u \in Users, cacheOk \in BOOLEAN : CountUserBookings(u, cacheOk)
    \/ \E t \in async, cacheOk \in BOOLEAN : RunAsync(t, cacheOk)
    \/ \E k \in CacheKeys : CacheExpire(k)

SpecList == Init /\ [][NextList]_vars

\* Bookings made and cancelled by their owner while the booked slots are
\* read; the payment step succeeds and every Clear succeeds, so each write is
\* followed by a complete invalidation; the store of a read runs whenever
\* its goroutine is scheduled.
NextRace ==
    \/ \E st \in SlotStarts : CreateBooking("u1", "f1", 0, st, 1, FALSE, "ok")
    \/ \E id \in 1 .. MaxBookings : CancelUserBooking(id, "u1")
    \/ \E cacheOk \in BOOLEAN : GetBookedSlots("f1", 0, cacheOk)
    \/ \E t \in async, cacheOk \in BOOLEAN :
            (t.kind = "clear" => cacheOk) /\ RunAsync(t, cacheOk)

SpecRace == Init /\ [][NextRace]_vars

\* Register requests for allowed and other email addresses, each in its own
\* transaction, their statements interleaved; any statement after the lookup
\* may fail.
NextRegister ==
    \/ \E p \in Procs, email \in Emails : RegisterCheck(p, email)
    \/ \E p \in Procs, dbOk \in BOOLEAN : RegisterCreateUser(p, dbOk)
    \/ \E p \in Procs, dbOk \in BOOLEAN : RegisterCreateVerification(p, dbOk)
    \/ \E p \in Procs, dbOk \in BOOLEAN : RegisterCommit(p, dbOk)

SpecRegister == Init /\ [][NextRegister]_vars

\* CalculateTotalPrice on its own: prices over the whole int64 range (every
\* value of the four top bits, low and middle limbs empty or full) and
\* durations from -1 up.
PriceInputs ==
    {<<a, 0, 0, b, t>> : a \in {0, 1, MinAmount}, b \in {0, LimbBase - 1},
                         t \in 0 .. (TopBase - 1)}
HourInputs == (0 - 1) .. MaxHours

InitPrice ==
    /\ bookings = <<>>
    /\ payments = <<>>
    /\ now = 0
    /\ proc = [p \in Procs |-> Idle]
    /\ \E p \in PriceInputs, d \in HourInputs :
          last = [op |-> "input", pricePerHour |-> p, durationHours |-> d]
    /\ cache = [k \in CacheKeys |-> NoEntry]
    /\ async = {}
    /\ users = <<>>
    /\ email_verifications = <<>>

ApplyCalculateTotalPrice ==
    /\ last.op = "input"
    /\ last' = [op            |-> "price",
                pricePerHour  |-> last.pricePerHour,
                durationHours |-> last.durationHours,
                total         |-> CalculateTotalPrice(last.pricePerHour,
                                                      last.durationHours)]
    /\ UNCHANGED <<bookings, payments, now, proc>>
    /\ UNCHANGED <<cacheVars, authVars>>

SpecPrice == InitPrice /\ [][ApplyCalculateTotalPrice]_vars

\* ================================================================== claims
\* [s1, e1) and [s2, e2) overlap iff s1 < e2 and s2 < e1
IntervalsOverlap(s1, e1, s2, e2) == s1 < e2 /\ s2 < e1

IsActive(b) == b.status \in {"PENDING", "CONFIRMED", "PAID"}

SameSlot(a, b) == a.field_id = b.field_id /\ a.booking_date = b.booking_date

\* C1: for every field and date, no two bookings whose status is PENDING,
\* CONFIRMED or PAID have overlapping [start_time, end_time) intervals.
C1_NoDoubleBooking ==
    \A i, j \in DOMAIN bookings :
        (i < j /\ SameSlot(bookings[i], bookings[j])
               /\ IsActive(bookings[i]) /\ IsActive(bookings[j]))
        => ~IntervalsOverlap(bookings[i].start_time, bookings[i].end_time,
                             bookings[j].start_time, bookings[j].end_time)

\* C2: of the CreateBooking requests that run concurrently for overlapping
\* intervals of one field and date, at most one commits a booking row.
C2_AtMostOneOverlappingCommit ==
    \A i \in DOMAIN bookings :
        \A j \in DOMAIN bookings \ {i} :
            SameSlot(bookings[i], bookings[j])
            => ~IntervalsOverlap(bookings[j].start_time, bookings[j].end_time,
                                 bookings[i].start_time, bookings[i].end_time)

\* an active booking on (f, d) whose interval overlaps [s, e)
ActiveOverlapExists(f, d, s, e) ==
    \E i \in DOMAIN bookings :
        /\ bookings[i].field_id = f
        /\ bookings[i].booking_date = d
        /\ bookings[i].deleted_at = NULL
        /\ IsActive(bookings[i])
        /\ IntervalsOverlap(s, e, bookings[i].start_time, bookings[i].end_time)

\* C3: a CreateBooking request that passes the time validation is rejected
\* with Conflict if and only if an active booking on its field and date
\* overlaps its interval [s, e).
C3_ConflictIffOverlap ==
    [][\A f \in Fields, d \in Dates, st \in StartTimes, dur \in Durations :
          (CreateBooking("u1", f, d, st, dur, FALSE, "ok")
              /\ IsBookingTimeValid(d, st))
          => ((last'.err = "Conflict")
                <=> ActiveOverlapExists(f, d, st, CalculateEndTime(st, dur)))]_vars

\* C4: once a booking is CANCELLED or EXPIRED its status never changes.
C4_TerminalStatuses ==
    [][\A i \in DOMAIN bookings :
          bookings[i].status \in {"CANCELLED", "EXPIRED"}
          => bookings'[i].status = bookings[i].status]_vars

\* C5: every booking's status is one of PENDING, CONFIRMED, PAID, CANCELLED,
\* EXPIRED.
C5_StatusInEnumeration ==
    \A i \in DOMAIN bookings :
        bookings[i].status \in {"PENDING", "CONFIRMED", "PAID", "CANCELLED", "EXPIRED"}

IsOverdue(b) ==
    b.status = "PENDING" /\ b.expires_at < now /\ b.deleted_at = NULL

\* C6: the sweep sets EXPIRED on exactly the non-deleted PENDING bookings
\* whose expires_at is before now and leaves every other booking as it was;
\* and no step of any operation moves a booking to EXPIRED from a status
\* other than PENDING.
C6_SweepExpiresExactlyOverdue ==
    [][/\ ExpireOldBookings
          => /\ DOMAIN bookings' = DOMAIN bookings
             /\ \A i \in DOMAIN bookings :
                   bookings'[i] = IF IsOverdue(bookings[i])
                                  THEN [bookings[i] EXCEPT !.status = "EXPIRED"]
                                  ELSE bookings[i]
       /\ \A i \in DOMAIN bookings :
             (bookings'[i].status = "EXPIRED" /\ bookings[i].status # "EXPIRED")
             => IsOverdue(bookings[i])]_vars

\* an overdue booking was swept while a confirmed one of the same age was not
C6_Witness ==
    /\ \E i \in DOMAIN bookings :
          bookings[i].status = "EXPIRED" /\ bookings[i].expires_at < now
    /\ \E i \in DOMAIN bookings :
          bookings[i].status = "CONFIRMED" /\ bookings[i].expires_at < now

\* C7: a second sweep right after a sweep changes nothing: sweeping the
\* swept table gives the swept table.
C7_SweepIdempotent ==
    ExpireRows(ExpireRows(bookings)) = ExpireRows(bookings)

\* two bookings are overdue, so that one sweep has two rows to expire
C7_Witness ==
    /\ Len(bookings) = 2
    /\ \A i \in DOMAIN bookings : IsOverdue(bookings[i])
    /\ ExpireRows(bookings) # bookings

\* C8: a booking that is PENDING with expires_at in the past eventually is
\* EXPIRED, or was confirmed or cancelled in the meantime.
C8_OverdueEventuallyExpired ==
    \A i \in 1 .. MaxBookings :
        (i \in DOMAIN bookings /\ IsOverdue(bookings[i]))
        ~> (i \in DOMAIN bookings
            /\ bookings[i].status \in {"EXPIRED", "CONFIRMED", "CANCELLED"})

\* no non-deleted booking has this id and this owner
NoRowOf(id, u) ==
    \/ id \notin DOMAIN bookings
    \/ bookings[id].user_id # u
    \/ bookings[id].deleted_at # NULL

\* C9: CancelUserBooking by a user who does not own the booking, or for an
\* id that does not exist, leaves every booking row unchanged.
C9_CancelByOtherChangesNothing ==
    [][\A id \in BookingIDs, u \in Users :
          (last'.op = "cancel" /\ NoRowOf(id, u) /\ CancelUserBooking(id, u))
          => bookings' = bookings]_vars

\* a cancellation was answered while no booking has ever been cancelled
C9_Witness ==
    /\ last.op = "cancel"
    /\ Len(bookings) = 2
    /\ \A i \in DOMAIN bookings :
          bookings[i].canceled_at = NULL /\ bookings[i].canceled_by = "NULL"

\* C10: CancelUserBooking that matches no row returns a failure.
C10_CancelMissFails ==
    [][\A id \in BookingIDs, u \in Users :
          (last'.op = "cancel" /\ NoRowOf(id, u) /\ CancelUserBooking(id, u))
          => last'.err # "nil"]_vars

\* C11: CreateBooking with cash = true by an actor who is neither staff nor
\* admin, once it passes the time, overlap and field checks, is answered
\* with Forbidden, and the request commits no booking row.
C11_CashByNonStaffCommitsNothing ==
    [][\A u \in Users, f \in {"f1", NoField}, st \in SlotStarts, ok \in AdapterResults :
          (last'.op = "create"
              /\ RoleOf(u) \notin {UserRoleStaff, UserRoleAdmin}
              /\ CreateBooking(u, f, 0, st, 1, TRUE, ok))
          => /\ last'.err \in {"BadRequest", "Conflict", "NotFound", "Forbidden"}
             /\ bookings' = bookings]_vars

HasPayment(id) == \E k \in DOMAIN payments : payments[k].booking_id = id

\* C12: a callback with the valid token and status paid, for an existing
\* PENDING booking that has a payment row, sets the booking to CONFIRMED and
\* sets its payment to paid with paid_at populated.
C12_PaidCallbackConfirms ==
    [][\A id \in BookingIDs :
          (/\ last'.op = "callback"
           /\ id \in DOMAIN bookings
           /\ bookings[id].status = "PENDING"
           /\ bookings[id].deleted_at = NULL
           /\ HasPayment(id)
           /\ Callbacks(id, PaymentStatusPaid, NULL, CallbackToken))
          => /\ bookings'[id].status = "CONFIRMED"
             /\ \A k \in DOMAIN payments :
                   payments[k].booking_id = id
                   => /\ payments'[k].payment_status = "PAID"
                      /\ payments'[k].paid_at # NULL]_vars

\* a callback was answered and a gateway booking is CONFIRMED with its
\* payment paid at a known time
C12_Witness ==
    /\ last = Result("callback", "nil")
    /\ \E id \in DOMAIN bookings :
          /\ bookings[id].status = "CONFIRMED"
          /\ \E k \in DOMAIN payments :
                /\ payments[k].booking_id = id
                /\ payments[k].payment_status = "PAID"
                /\ payments[k].paid_at = now

\* C13: a callback whose token differs from the configured secret is
\* answered with Unauthorized and changes no payment row and no booking row.
C13_WrongTokenUnauthorized ==
    [][\A id \in BookingIDs, s \in {PaymentStatusPaid, ""}, t \in Tokens \ {CallbackToken} :
          (last'.op = "callback" /\ Callbacks(id, s, NULL, t))
          => /\ last'.err = "Unauthorized"
             /\ bookings' = bookings
             /\ payments' = payments]_vars

\* a callback was refused while a PENDING booking still awaits its payment
C13_Witness ==
    /\ last = Result("callback", "Unauthorized")
    /\ \E id \in DOMAIN bookings :
          /\ bookings[id].status = "PENDING"
          /\ \E k \in DOMAIN payments :
                /\ payments[k].booking_id = id
                /\ payments[k].payment_status = "PENDING"
                /\ payments[k].paid_at = NULL

\* C14: a callback with the valid token whose booking id matches no payment
\* row, or no non-deleted booking row, fails with NotFound and leaves all
\* payment and booking rows unchanged.
C14_CallbackMissNotFound ==
    [][\A id \in BookingIDs, s \in {PaymentStatusPaid, ""} :
          (/\ last'.op = "callback"
           /\ \/ ~HasPayment(id)
              \/ id \notin DOMAIN bookings
              \/ bookings[id].deleted_at # NULL
           /\ Callbacks(id, s, NULL, CallbackToken))
          => /\ last'.err = "NotFound"
             /\ bookings' = bookings
             /\ payments' = payments]_vars

\* both updates of the callback transaction tx, applied to the tables
BothApplied(tx) ==
    /\ payments' = UpdatePaymentStatusByBookingID(payments, tx.id, tx.paymentStatus,
                                                  tx.paymentMethod, tx.paid_at)
    /\ bookings' = UpdateBookingStatus(bookings, tx.id, tx.bookingStatus)

\* C15: the payment update and the booking update of one callback are
\* atomic: every step of a callback either leaves the payments and bookings
\* tables as they were or applies both updates, also when the booking update
\* or the commit fails after the payment update.
C15_CallbackAtomic ==
    [][\A p \in Procs :
          proc'[p] # proc[p]
          => \/ payments' = payments /\ bookings' = bookings
             \/ proc[p].pc = "bookingUpdated" /\ BothApplied(proc[p])]_vars

\* a callback failed after its payment update and the booking and its
\* payment are both as they were before it
C15_Witness ==
    /\ last = Result("callback", "InternalError")
    /\ \E id \in DOMAIN bookings :
          /\ bookings[id].status = "PENDING"
          /\ \E k \in DOMAIN payments :
                /\ payments[k].booking_id = id
                /\ payments[k].payment_status = "PENDING"
                /\ payments[k].paid_at = NULL

PaymentsOf(rows, id) == {k \in DOMAIN rows : rows[k].booking_id = id}

C17_PendingExpiresAfterGrace ==
    [][\A u \in Users, st \in SlotStarts, ok \in AdapterResults :
          (/\ last'.op = "create"
           /\ last'.err = "nil"
           /\ CreateBooking(u, "f1", 0, st, 1, FALSE, ok))
          => LET id == Len(bookings) + 1
             IN  /\ Len(bookings') = id
                 /\ bookings'[id].status = "PENDING"
                 /\ bookings'[id].created_at = now
                 /\ bookings'[id].expires_at = bookings'[id].created_at + GracePeriod]_vars

\* a gateway booking was just created, after the clock had advanced
C17_Witness ==
    /\ last = Response("nil", "PENDING", TRUE)
    /\ now > 0
    /\ \E id \in DOMAIN bookings :
          /\ bookings[id].created_at = now
          /\ bookings[id].status = "PENDING"
          /\ bookings[id].expires_at = now + GracePeriod

\* x * d as a number: the limbs of the product with nothing cut off the top
Product(x, d) ==
    LET p1 == x[1] * d
        p2 == x[2] * d + p1 \div LimbBase
        p3 == x[3] * d + p2 \div LimbBase
        p4 == x[4] * d + p3 \div LimbBase
        p5 == x[5] * d + p4 \div LimbBase
    IN  <<p1 % LimbBase, p2 % LimbBase, p3 % LimbBase, p4 % LimbBase, p5>>

\* C18: CalculateTotalPrice returns 0 when the price or the duration is not
\* positive and price * duration otherwise, and its result is never
\* negative, for every 64-bit price and every duration.
C18_TotalPriceNonNegative ==
    last.op = "price"
    => LET price == last.pricePerHour
           hours == last.durationHours
       IN  /\ ~IsNegative64(last.total)
           /\ IF price[5] >= 8 \/ price = <<0, 0, 0, 0, 0>> \/ hours <= 0
              THEN last.total = <<0, 0, 0, 0, 0>>
              ELSE /\ last.total = Product(price, hours)
                   /\ Product(price, hours)[5] < 8

\* C19: a booking's total_price, field_id, booking_date, start_time and
\* end_time never change after the booking is created: cancellation, the
\* expiration sweep and payment callbacks all leave them as they were.
C19_PriceImmutable ==
    [][\A i \in DOMAIN bookings :
          /\ i \in DOMAIN bookings'
          /\ bookings'[i].total_price = bookings[i].total_price
          /\ bookings'[i].field_id = bookings[i].field_id
          /\ bookings'[i].booking_date = bookings[i].booking_date
          /\ bookings'[i].start_time = bookings[i].start_time
          /\ bookings'[i].end_time = bookings[i].end_time]_vars

\* one booking was cancelled and then reached by a callback, another was
\* swept, and both still carry the price of one hour
C19_Witness ==
    /\ \E i \in DOMAIN bookings :
          /\ bookings[i].canceled_at # NULL
          /\ bookings[i].status = "CONFIRMED"
          /\ bookings[i].total_price = <<10000, 0, 0, 0, 0>>
    /\ \E j \in DOMAIN bookings :
          /\ bookings[j].status = "EXPIRED"
          /\ bookings[j].total_price = <<10000, 0, 0, 0, 0>>

\* C20: every booking row that CreateBooking commits has end_time strictly
\* greater than start_time, for every accepted start time and duration.
C20_EndAfterStart ==
    \A i \in DOMAIN bookings : bookings[i].end_time > bookings[i].start_time

\* the step of a request that had already committed its booking
PaymentStep == \E p \in Procs : proc[p].pc = "committed" /\ proc'[p].pc = "idle"

\* C21: a CreateBooking that returns an error arising before its commit
\* (BadRequest for a past time, Conflict, NotFound for the field, a storage
\* error or a timeout) adds no booking row and no payment row.
C21_EarlyErrorPersistsNothing ==
    [][(/\ last'.op = "create"
        /\ last'.err # "nil"
        /\ ~PaymentStep)
       => /\ bookings' = bookings
          /\ payments' = payments]_vars

\* a request failed on a storage error after its overlap check, while the
\* booking of another request is committed
C21_Witness ==
    /\ last = Result("create", "StorageError")
    /\ Len(bookings) = 1
    /\ \A p \in Procs : proc[p].pc = "idle"

\* C22: when the call to the payment adapter made after the commit fails (no
\* invoice, or no cash payment, is recorded for the new booking),
\* CreateBooking answers with an error and the committed booking stays in the
\* table with its status, PENDING or PAID.
C22_AdapterFailureSurfaced ==
    [][(/\ Len(bookings') = Len(bookings) + 1
        /\ payments' = payments)
       => /\ last'.op = "create"
          /\ last'.err # "nil"
          /\ bookings'[Len(bookings')].status
                \in {BookingStatusPending, BookingStatusPaid}]_vars

\* the intervals of the bookings that CountOverlaps counts on a field and date
CountedIntervals(fieldID, date) ==
    {<<bookings[i].start_time, bookings[i].end_time>> :
        i \in {j \in DOMAIN bookings :
                  /\ bookings[j].field_id = fieldID
                  /\ bookings[j].booking_date = date
                  /\ bookings[j].status \in ActiveStatuses
                  /\ bookings[j].deleted_at = NULL}}

SlotsKey(fieldID, date) == BuildCacheKey(cacheGetBookingsKey, SlotsArgs(fieldID, date))

\* C23: on a cache miss GetBookedSlots returns exactly the intervals that the
\* overlap check would count for that field and date: those of the
\* non-deleted bookings whose status is PENDING, CONFIRMED or PAID.
C23_SlotsAreCountedIntervals ==
    [][\A cacheOk \in BOOLEAN :
          (/\ last'.op = "slots"
           /\ ~(cacheOk /\ Cached(SlotsKey("f1", 0)))
           /\ GetBookedSlots("f1", 0, cacheOk))
          => last'.value = CountedIntervals("f1", 0)]_vars

\* C24: a failing cache call or a failing notification never changes what a
\* request answers or what it leaves in the database: a goroutine step,
\* failed or not, leaves the tables and the answer alone, and a read whose
\* cache lookup fails answers without error with what the repository holds.
C24_CacheFailuresSwallowed ==
    [][/\ (\E t \in async, cacheOk \in BOOLEAN : RunAsync(t, cacheOk))
            => UNCHANGED <<bookings, payments, last>>
       /\ (last'.op = "slots" /\ GetBookedSlots("f1", 0, FALSE))
            => /\ last'.err = "nil"
               /\ last'.value = GetBookedTimeSlots(bookings, "f1", 0)
               /\ UNCHANGED <<bookings, payments>>
       /\ (last'.op = "list" /\ GetUserBookings("u2", FALSE, FALSE))
            => /\ last'.err = "nil"
               /\ last'.value = [items |-> UserBookings(bookings, "u2"),
                                 total |-> Cardinality(UserBookings(bookings, "u2"))]
               /\ UNCHANGED <<bookings, payments>>]_vars

\* the slots of a pending booking were read from the repository, and the
\* goroutine storing them has run and left no entry
C24_Witness ==
    /\ last.op = "slots"
    /\ last.value # {}
    /\ Len(bookings) = 1
    /\ bookings[1].status = BookingStatusPending
    /\ ~Cached(SlotsKey("f1", 0))
    /\ async = {}

\* the latest answer is that of a CreateBooking whose booking is committed
CommittedAnswer == "invoice" \in DOMAIN last

C26_ReadThrough ==
    [][/\ \A cacheOk \in BOOLEAN :
            (last'.op = "slots" /\ GetBookedSlots("f1", 0, cacheOk))
            => IF cacheOk /\ Cached(SlotsKey("f1", 0))
               THEN /\ last'.value = cache[SlotsKey("f1", 0)].value
                    /\ async' = async
               ELSE /\ last'.value = GetBookedTimeSlots(bookings, "f1", 0)
                    /\ [kind  |-> "save",
                        key   |-> SlotsKey("f1", 0),
                        value |-> last'.value] \in async'
       /\ \A t \in async :
            (t.kind = "save" /\ RunAsync(t, TRUE))
            => cache' = [cache EXCEPT ![t.key] =
                            [ttl |-> CacheDuration, value |-> t.value]]]_vars

\* a read answered from an entry that no longer matches the table, while the
\* store of an earlier miss has put that entry in place
C26_Witness ==
    /\ last.op = "slots"
    /\ Cached(SlotsKey("f1", 0))
    /\ cache[SlotsKey("f1", 0)].ttl = CacheDuration
    /\ last.value = cache[SlotsKey("f1", 0)].value
    /\ last.value # GetBookedTimeSlots(bookings, "f1", 0)

\* C27: GetUserBookings and CountUserBookings answer a caller only with
\* bookings of that caller, whether the answer comes from the cache or from
\* the repository: every listed booking is owned by the caller, and neither
\* total counts more bookings than the caller owns.
C27_OnlyOwnBookings ==
    [][\A u \in Users, cacheOk \in BOOLEAN, countOk \in BOOLEAN :
          /\ (last'.op = "list" /\ GetUserBookings(u, cacheOk, countOk))
               => /\ \A i \in last'.value.items : bookings[i].user_id = u
                  /\ last'.value.total <= Cardinality(UserBookings(bookings, u))
          /\ (last'.op = "count" /\ CountUserBookings(u, cacheOk))
               => last'.value <= Cardinality(UserBookings(bookings, u))]_vars

\* no invalidation is waiting or under way
InvalidationDone == \A t \in async : t.kind # "clear"

\* C28: once the invalidation that a CreateBooking or CancelUserBooking
\* started has completed, and until the next write, GetBookedSlots returns
\* the slots the database holds, however the stores of concurrent reads are
\* scheduled around the invalidation.
C28_FreshAfterInvalidation ==
    [][\A cacheOk \in BOOLEAN :
          (/\ last'.op = "slots"
           /\ InvalidationDone
           /\ GetBookedSlots("f1", 0, cacheOk))
          => last'.value = GetBookedTimeSlots(bookings, "f1", 0)]_vars

\* some booking of this slot has been cancelled, and every booking that the
\* overlap check would count for the slot is one that has been cancelled
OnlyCancelledOverlap(fieldID, date, startTime, endTime) ==
    /\ \E i \in DOMAIN bookings :
          /\ bookings[i].canceled_at # NULL
          /\ bookings[i].field_id = fieldID
          /\ bookings[i].booking_date = date
          /\ bookings[i].start_time = startTime
          /\ bookings[i].end_time = endTime
    /\ \A j \in OverlapRows(bookings, fieldID, date, startTime, endTime) :
          bookings[j].canceled_at # NULL

\* C29: CancelUserBooking by the owner of a booking sets its status to
\* CANCELLED with canceled_by = user and canceled_at set; from then on the
\* booking does not count in the overlap check: a later CreateBooking for
\* the same field, date and interval that passes the time validation, with no
\* other active booking overlapping it, is accepted.
C29_CancelledSlotIsFree ==
    [][/\ \A id \in 1 .. MaxBookings :
            (/\ last'.op = "cancel"
             /\ id \in DOMAIN bookings
             /\ bookings[id].user_id = "u1"
             /\ CancelUserBooking(id, "u1"))
            => /\ bookings'[id].status = BookingStatusCanceled
               /\ bookings'[id].canceled_by = BookingCanceledByUser
               /\ bookings'[id].canceled_at = now
       /\ \A st \in SlotStarts, ok \in AdapterResults :
            (/\ last'.op = "create"
             /\ IsBookingTimeValid(0, st)
             /\ OnlyCancelledOverlap("f1", 0, st, CalculateEndTime(st, 1))
             /\ CreateBooking("u1", "f1", 0, st, 1, FALSE, ok))
            => /\ last'.err # "Conflict"
               /\ Len(bookings') = Len(bookings) + 1]_vars

\* C30: Register never creates a second user with the email of a user that
\* is not deleted: no two such users share an email, every user has at most
\* one verification record and every record a user; a request that finds the
\* email taken is answered with BadRequest, also when the other Register,
\* running concurrently, took it after this request had looked it up; and a
\* request answered with an error persists no user and no verification
\* record.
C30_NoSecondUser ==
    [][/\ \A i, j \in DOMAIN users' :
            (/\ i < j
             /\ users'[i].deleted_at = NULL
             /\ users'[j].deleted_at = NULL)
            => users'[i].email # users'[j].email
       /\ Len(email_verifications') = Len(users')
       /\ (last'.op = "register" /\ last'.err # "nil")
            => UNCHANGED authVars
       /\ \A p \in Procs :
            (/\ last'.op = "register"
             /\ proc[p].pc = "emailFree"
             /\ GetUserByEmail(users, proc[p].email) # {}
             /\ RegisterCreateUser(p, TRUE))
            => last'.err = "BadRequest"]_vars
====
